---- MODULE Spec2Model ----
(***************************************************************************)
(* Model of the Tado session client (src/src/tado/tado.py, class Tado).    *)
(*                                                                         *)
(* The state is the fields of one Tado object, the clock time.time()       *)
(* reads, and for every calling coroutine its position (the await it is    *)
(* suspended at), the operation it runs, the local variable `request`,     *)
(* the requests the running call has put on the wire and the outcome of    *)
(* its last completed call.  A coroutine runs without interruption up to   *)
(* its next network await, so each action is one such stretch of code.     *)
(*                                                                         *)
(* Python None is NoneStr for the str fields, NoneInt for the numeric      *)
(* fields and PyNone for objects.  An attribute that was never assigned    *)
(* is Unset.                                                               *)
(***************************************************************************)
EXTENDS Integers, Sequences, FiniteSets, TLC

VARIABLES
    session,        \* self.session: "none" (None), "open" or "closed"
    supplied,       \* TRUE iff the caller assigned self.session
    close_session,  \* self._close_session: Unset or "True"
    access_token,   \* self._access_token
    token_expiry,   \* self._token_expiry
    refesh_token,   \* self._refesh_token
    home_id,        \* self._home_id
    me,             \* self._me
    now,            \* time.time()
    scope,          \* the `async with` block: "none", "inside", "left"
    pc,             \* per coroutine: "idle" or the await it is suspended at
    op,             \* per coroutine: the public operation it runs / ran last
    uri,            \* per coroutine: the uri argument of _request
    request,        \* per coroutine: the local `request` (last response)
    awaited,        \* per coroutine: how its last awaited request ended
    sent,           \* per coroutine: requests sent by the current/last call
    res             \* per coroutine: outcome of the current/last call

vars == <<session, supplied, close_session, access_token, token_expiry,
          refesh_token, home_id, me, now, scope, pc, op, uri, request,
          awaited, sent, res>>

-----------------------------------------------------------------------------
(* Bounds of the model. *)

\* the clock runs from 0 to MaxTime
MaxTime == 2

(* Program constants. *)

\* the safety margin of _refresh_auth, `self._token_expiry - 30`
RefreshMargin == 30

-----------------------------------------------------------------------------
(* Values. *)

NoneStr == "None"
NoneInt == -1
Unset == "unset"
\* the home field of a uri that is not under homes/{id}/
NoHomeScope == -2

Tasks == {1, 2}
\* the coroutines that call the session in the sequential specification
MainTasks == {1}

PyNone == [tag |-> "None", text |-> ""]
PyGetMe(text) == [tag |-> "GetMe", text |-> text]
PyList(text) == [tag |-> "list", text |-> text]

\* an exception: its class, and what its message carries
Exc(type, status, body, ctype) ==
    [type |-> type, status |-> status, body |-> body, ctype |-> ctype]
NoExc == Exc("", 0, "", "")

Return(value) == [kind |-> "return", err |-> NoExc, value |-> value]
Raise(e) == [kind |-> "raise", err |-> e, value |-> PyNone]
Pending == [kind |-> "pending", err |-> NoExc, value |-> PyNone]
NoCall == [kind |-> "none", err |-> NoExc, value |-> PyNone]

HomeScoped == {"devices", "mobileDevices", "zones", "zoneStates"}

Uri(home, path) == [home |-> home, path |-> path]
NoUri == Uri(NoHomeScope, "")

-----------------------------------------------------------------------------
(* The servers: what a request can be answered with. *)

Statuses == {200, 304, 400, 401, 403, 404, 500, 503}

\* the content types that contain "application/json"
JsonCTypes == {"application/json", "application/json;charset=utf-8"}
\* the content types the servers answer with; NoneStr: no Content-Type header
CTypes == {"application/json;charset=utf-8", "text/html", NoneStr}

ErrTexts == {"err1", "err2"}
MeTexts == {"me[42]", "me[7,42]", "me[]"}
DataTexts == {"data1"}

\* the JSON object of a token response; a key the object lacks is None
TokenJson(a, r, e) == [access_token |-> a, refresh_token |-> r, expires_in |-> e]
NoJson == TokenJson(NoneStr, NoneStr, NoneInt)
\* the token pairs the token endpoint issues, and the lifetimes it grants
TokenPairs == {<<"A1", "R1">>, <<"A2", "R2">>}
ExpiresIn == {30, 32}
TokenJsons ==
    {TokenJson(p[1], p[2], e) : p \in TokenPairs, e \in ExpiresIn}
    \cup {TokenJson(NoneStr, "R1", 32), TokenJson("A1", NoneStr, 32),
          TokenJson("A1", "R1", NoneInt)}

Response(site, status, ctype, text, json) ==
    [site |-> site, status |-> status, ctype |-> ctype, text |-> text, json |-> json]
\* the local `request`: the response without its parsed body
Local(r) == [site |-> r.site, status |-> r.status, ctype |-> r.ctype, text |-> r.text]
NoResponse == Local(Response("", 0, NoneStr, "", NoJson))

\* the token endpoint answers a status with a JSON token object or with text
TokenResponses(site) ==
    {Response(site, s, c, "json", j) :
        s \in Statuses, c \in CTypes \cap JsonCTypes, j \in TokenJsons}
    \cup {Response(site, s, c, t, NoJson) :
            s \in Statuses, c \in CTypes \ JsonCTypes, t \in ErrTexts}

\* the resource API answers an error status with an error text and any other
\* status with the resource
ResourceTexts(status, path) ==
    IF status >= 400 THEN ErrTexts
    ELSE IF path = "me" THEN MeTexts ELSE DataTexts
ResourceResponses(path) ==
    UNION {{Response("request", s, "application/json;charset=utf-8", t, NoJson) :
                t \in ResourceTexts(s, path)} : s \in Statuses}

\* how an awaited request can end
Outcomes == {"response", "timeout", "unreachable"}
Awaited(site, outcome) == [site |-> site, outcome |-> outcome]
NoAwait == Awaited("", "")

-----------------------------------------------------------------------------
(* Pure parts of the code. *)

\* a raise_for_status that lets the client errors pass
raise_for_status_5xx(status) == status >= 500

\* request.raise_for_status(): raises ClientResponseError iff status >= 400
raise_for_status(status) == status >= 400

\* Tado.check_request_status: the exception it raises
status_error_mapping(status, text) ==
    (400 :> Exc("TadoBadRequestError", 0, text, ""))
    @@ (500 :> Exc("TadoException", status, text, ""))
    @@ (401 :> Exc("TadoAuthenticationError", 0, text, ""))
    @@ (403 :> Exc("TadoForbiddenError", 0, text, ""))

\* a check_request_status whose mapping is never looked up
check_request_status_unmapped(status, text) ==
    Exc("TadoException", status, text, "")

check_request_status(status, text) ==
    IF status \in DOMAIN status_error_mapping(status, text)
    THEN status_error_mapping(status, text)[status]
    ELSE Exc("TadoException", status, text, "")

\* _refresh_auth without its `except asyncio.TimeoutError`
except_TimeoutError_uncaught(site) ==
    IF site = "refresh" THEN Exc("TimeoutError", 0, "", "")
    ELSE Exc("TadoConnectionError", 0, "", "")

\* `except asyncio.TimeoutError` at the three request sites
except_TimeoutError(site) ==
    CASE site = "login" -> Exc("TadoConnectionError", 0, "", "")
      [] site = "refresh" -> Exc("TadoConnectionError", 0, "", "")
      [] site = "request" -> Exc("TadoConnectionError", 0, "", "")

\* a failure to connect is caught nowhere: aiohttp's error reaches the caller
ConnectionFailure == Exc("ClientConnectorError", 0, "", "")

\* a content-type test that every content type passes
json_in_content_type_any(ctype) == TRUE

\* `"application/json" not in request.headers.get("content-type")`
json_in_content_type(ctype) == ctype \in JsonCTypes

\* the comparison with <= in place of <
refresh_due_after(t, expiry) == ~(t <= expiry - RefreshMargin)

\* `time.time() < self._token_expiry - 30` is false
refresh_due(t, expiry) == ~(t < expiry - RefreshMargin)

\* a get_me that never looks at its cache
me_is_none_always(m) == TRUE

\* `self._me is None`
me_is_none(m) == m = PyNone

\* GetMe.from_json(response).homes, as the ids of the homes
homes(obj) ==
    CASE obj.text = "me[42]" -> <<42>>
      [] obj.text = "me[7,42]" -> <<7, 42>>
      [] OTHER -> <<>>

\* lines 87-90 and 143-146: the fields after `response = await request.json()`
\* and the three assignments, of which a missing key (KeyError) cuts the rest
store_tokens(json) ==
    IF json.access_token = NoneStr
    THEN [tok |-> access_token, exp |-> token_expiry, rtok |-> refesh_token,
          ok |-> FALSE]
    ELSE IF json.expires_in = NoneInt
    THEN [tok |-> json.access_token, exp |-> token_expiry, rtok |-> refesh_token,
          ok |-> FALSE]
    ELSE IF json.refresh_token = NoneStr
    THEN [tok |-> json.access_token, exp |-> now + json.expires_in,
          rtok |-> refesh_token, ok |-> FALSE]
    ELSE [tok |-> json.access_token, exp |-> now + json.expires_in,
          rtok |-> json.refresh_token, ok |-> TRUE]

\* a _refresh_auth that takes every stored expiry for fresh
refresh_auth_check_skipped(expiry) ==
    IF expiry = NoneInt THEN "TypeError" ELSE "return"

\* the head of _refresh_auth: what the comparison with the expiry leads to
refresh_auth_check(expiry) ==
    IF expiry = NoneInt THEN "TypeError"
    ELSE IF refresh_due(now, expiry) THEN "post"
    ELSE "return"

\* the requests as they go on the wire
Req(site, grant, rtok, bearer, u) ==
    [site |-> site, grant |-> grant, refresh_token |-> rtok, bearer |-> bearer,
     home |-> u.home, path |-> u.path]
PasswordReq == Req("login", "password", "", "", NoUri)
RefreshReq(rtok) == Req("refresh", "refresh_token", rtok, "", NoUri)
ResourceReq(u, tok) == Req("request", "", "", tok, u)

-----------------------------------------------------------------------------
(* Control flow shared by the operations. *)

IsLogin(o) == o \in {"_login", "__aenter__"}

\* `async with`: __aenter__ that raises leaves the block without __aexit__
ScopeAfter(o, r) ==
    CASE o = "__aenter__" -> IF r.kind = "return" THEN "inside" ELSE "left"
      [] o = "__aexit__" -> "left"
      [] OTHER -> scope

\* the call of coroutine t ends with outcome r
Finish(t, o, log, r) ==
    /\ pc' = [pc EXCEPT ![t] = "idle"]
    /\ res' = [res EXCEPT ![t] = r]
    /\ sent' = [sent EXCEPT ![t] = log]
    /\ scope' = ScopeAfter(o, r)

\* self.session.post / self.session.request, and the await of the answer
Send(t, o, sess, q, label, log) ==
    IF sess = "open"
    THEN /\ pc' = [pc EXCEPT ![t] = label]
         /\ res' = [res EXCEPT ![t] = Pending]
         /\ sent' = [sent EXCEPT ![t] = Append(log, q)]
         /\ scope' = scope
    ELSE IF sess = "closed"
    THEN Finish(t, o, log, Raise(Exc("RuntimeError", 0, "", "")))
    ELSE Finish(t, o, log, Raise(Exc("AttributeError", 0, "", "")))

\* a _request that sends no refresh-grant request while another coroutine
\* awaits the answer to one
BeginRequest_single_flight(t, o, u, tok, exp, rtok, log) ==
    /\ uri' = [uri EXCEPT ![t] = u]
    /\ CASE refresh_auth_check(exp) = "TypeError" ->
              Finish(t, o, log, Raise(Exc("TypeError", 0, "", "")))
         [] refresh_auth_check(exp) = "post"
              /\ \A other \in Tasks \ {t} : pc[other] # "await_refresh" ->
              Send(t, o, session, RefreshReq(rtok), "await_refresh", log)
         [] OTHER ->
              Send(t, o, session, ResourceReq(u, tok), "await_request", log)

\* _request up to its first await, the fields being tok, exp and rtok
BeginRequest(t, o, u, tok, exp, rtok, log) ==
    /\ uri' = [uri EXCEPT ![t] = u]
    /\ CASE refresh_auth_check(exp) = "TypeError" ->
              Finish(t, o, log, Raise(Exc("TypeError", 0, "", "")))
         [] refresh_auth_check(exp) = "post" ->
              Send(t, o, session, RefreshReq(rtok), "await_refresh", log)
         [] refresh_auth_check(exp) = "return" ->
              Send(t, o, session, ResourceReq(u, tok), "await_request", log)

\* `self._home_id = get_me.homes[0].id`, the last line of _login
SetHomeId(t, o, m, log) ==
    IF homes(m) = <<>>
    THEN /\ home_id' = home_id
         /\ Finish(t, o, log, Raise(Exc("IndexError", 0, "", "")))
    ELSE /\ home_id' = homes(m)[1]
         /\ Finish(t, o, log, Return(PyNone))

-----------------------------------------------------------------------------
(* The operations. *)

Init ==
    /\ session = "none"
    /\ supplied = FALSE
    /\ close_session = Unset
    /\ access_token = NoneStr
    /\ token_expiry = NoneInt
    /\ refesh_token = NoneStr
    /\ home_id = NoneInt
    /\ me = PyNone
    /\ now = 0
    /\ scope = "none"
    /\ pc = [t \in Tasks |-> "idle"]
    /\ op = [t \in Tasks |-> ""]
    /\ uri = [t \in Tasks |-> NoUri]
    /\ request = [t \in Tasks |-> NoResponse]
    /\ awaited = [t \in Tasks |-> NoAwait]
    /\ sent = [t \in Tasks |-> <<>>]
    /\ res = [t \in Tasks |-> NoCall]

\* the caller assigns the field `session` before using the object
SupplySession ==
    /\ session = "none"
    /\ \A t \in Tasks : pc[t] = "idle"
    /\ session' = "open"
    /\ supplied' = TRUE
    /\ UNCHANGED <<close_session, access_token, token_expiry, refesh_token,
                   home_id, me, now, scope, pc, op, uri, request, awaited, sent,
                   res>>

\* time passes
Tick ==
    /\ now < MaxTime
    /\ now' = now + 1
    /\ UNCHANGED <<session, supplied, close_session, access_token, token_expiry,
                   refesh_token, home_id, me, scope, pc, op, uri, request, awaited,
                   sent, res>>

\* a call of operation o by coroutine t begins
Begin(t, o) ==
    /\ pc[t] = "idle"
    /\ op' = [op EXCEPT ![t] = o]
    /\ request' = [request EXCEPT ![t] = NoResponse]
    /\ awaited' = [awaited EXCEPT ![t] = NoAwait]

\* _login up to the await of the password-grant request
login_begin(t, o) ==
    /\ Begin(t, o)
    /\ session' = IF session = "none" THEN "open" ELSE session
    /\ close_session' = IF session = "none" THEN "True" ELSE close_session
    /\ uri' = [uri EXCEPT ![t] = NoUri]
    /\ Send(t, o, session', PasswordReq, "await_login", <<>>)
    /\ UNCHANGED <<supplied, access_token, token_expiry, refesh_token, home_id,
                   me, now>>

Login(t) == login_begin(t, "_login")

Aenter(t) ==
    /\ scope # "inside"
    /\ login_begin(t, "__aenter__")

\* _login from the answer to the password-grant request on
login_continue(t, r) ==
    LET o == op[t]
        st == store_tokens(r.json)
        Fail(e) == /\ Finish(t, o, sent[t], Raise(e))
                   /\ UNCHANGED <<access_token, token_expiry, refesh_token,
                                  home_id, uri>>
    IN  IF raise_for_status(r.status)
        THEN Fail(check_request_status(r.status, r.text))
        ELSE IF r.ctype = NoneStr
        THEN Fail(Exc("TypeError", 0, "", ""))
        ELSE IF ~json_in_content_type(r.ctype)
        THEN Fail(Exc("TadoException", 0, r.text, r.ctype))
        ELSE /\ access_token' = st.tok
             /\ token_expiry' = st.exp
             /\ refesh_token' = st.rtok
             /\ IF ~st.ok
                THEN /\ Finish(t, o, sent[t], Raise(Exc("KeyError", 0, "", "")))
                     /\ UNCHANGED <<home_id, uri>>
                ELSE IF me_is_none(me)
                THEN /\ BeginRequest(t, o, Uri(NoHomeScope, "me"), st.tok, st.exp,
                                     st.rtok, sent[t])
                     /\ home_id' = home_id
                ELSE /\ SetHomeId(t, o, me, sent[t])
                     /\ uri' = uri

\* a client that answers the first timeout of a call by sending the request
\* once more
NoAnswer_retry(t, site, outcome) ==
    /\ outcome \in {"timeout", "unreachable"}
    /\ awaited' = [awaited EXCEPT ![t] = Awaited(site, outcome)]
    /\ IF outcome = "timeout" /\ awaited[t].outcome # "timeout"
       THEN /\ sent' = [sent EXCEPT ![t] = Append(sent[t], sent[t][Len(sent[t])])]
            /\ UNCHANGED <<pc, res, scope>>
       ELSE Finish(t, op[t], sent[t],
                   Raise(IF outcome = "timeout" THEN except_TimeoutError(site)
                         ELSE ConnectionFailure))
    /\ UNCHANGED <<session, supplied, close_session, access_token, token_expiry,
                   refesh_token, home_id, me, now, op, uri, request>>

\* a client that drops its access token when a request gets no answer
NoAnswer_logout(t, site, outcome) ==
    /\ outcome \in {"timeout", "unreachable"}
    /\ awaited' = [awaited EXCEPT ![t] = Awaited(site, outcome)]
    /\ access_token' = NoneStr
    /\ Finish(t, op[t], sent[t],
              Raise(IF outcome = "timeout" THEN except_TimeoutError(site)
                    ELSE ConnectionFailure))
    /\ UNCHANGED <<session, supplied, close_session, token_expiry,
                   refesh_token, home_id, me, now, op, uri, request>>

\* an awaited request of coroutine t ends without an answer
NoAnswer(t, site, outcome) ==
    /\ outcome \in {"timeout", "unreachable"}
    /\ awaited' = [awaited EXCEPT ![t] = Awaited(site, outcome)]
    /\ Finish(t, op[t], sent[t],
              Raise(IF outcome = "timeout" THEN except_TimeoutError(site)
                    ELSE ConnectionFailure))
    /\ UNCHANGED <<session, supplied, close_session, access_token, token_expiry,
                   refesh_token, home_id, me, now, op, uri, request>>

LoginResponse(t) ==
    /\ pc[t] = "await_login"
    /\ \E outcome \in Outcomes :
          \/ NoAnswer(t, "login", outcome)
          \/ /\ outcome = "response"
             /\ awaited' = [awaited EXCEPT ![t] = Awaited("login", outcome)]
             /\ \E r \in TokenResponses("login") :
                   /\ request' = [request EXCEPT ![t] = Local(r)]
                   /\ login_continue(t, r)
             /\ UNCHANGED <<session, supplied, close_session, me, now, op>>

\* _request from the resource request on, the access token being tok
SendResource(t, tok) ==
    Send(t, op[t], session, ResourceReq(uri[t], tok), "await_request", sent[t])

\* _refresh_auth as a call of its own, up to its first await
RefreshAuth(t) ==
    /\ Begin(t, "_refresh_auth")
    /\ uri' = [uri EXCEPT ![t] = NoUri]
    /\ CASE refresh_auth_check(token_expiry) = "TypeError" ->
              Finish(t, "_refresh_auth", <<>>, Raise(Exc("TypeError", 0, "", "")))
         [] refresh_auth_check(token_expiry) = "post" ->
              Send(t, "_refresh_auth", session, RefreshReq(refesh_token),
                   "await_refresh", <<>>)
         [] refresh_auth_check(token_expiry) = "return" ->
              Finish(t, "_refresh_auth", <<>>, Return(PyNone))
    /\ UNCHANGED <<session, supplied, close_session, access_token, token_expiry,
                   refesh_token, home_id, me, now>>

\* a _request that goes on with the token it has when the refresh is answered
\* with an error status
refresh_continue_swallow(t, r) ==
    LET o == op[t]
        st == store_tokens(r.json)
    IN  IF raise_for_status(r.status)
        THEN /\ UNCHANGED <<access_token, token_expiry, refesh_token>>
             /\ IF o = "_refresh_auth"
                THEN Finish(t, o, sent[t], Return(PyNone))
                ELSE SendResource(t, access_token)
        ELSE IF ~json_in_content_type(r.ctype)
        THEN /\ Finish(t, o, sent[t], Raise(Exc("ContentTypeError", 0, "", "")))
             /\ UNCHANGED <<access_token, token_expiry, refesh_token>>
        ELSE /\ access_token' = st.tok
             /\ token_expiry' = st.exp
             /\ refesh_token' = st.rtok
             /\ IF ~st.ok
                THEN Finish(t, o, sent[t], Raise(Exc("KeyError", 0, "", "")))
                ELSE IF o = "_refresh_auth"
                THEN Finish(t, o, sent[t], Return(PyNone))
                ELSE SendResource(t, st.tok)

\* a _request that reads the access token for its header before the refresh
refresh_continue_stale(t, r) ==
    LET o == op[t]
        st == store_tokens(r.json)
        Fail(e) == /\ Finish(t, o, sent[t], Raise(e))
                   /\ UNCHANGED <<access_token, token_expiry, refesh_token>>
    IN  IF raise_for_status(r.status)
        THEN Fail(check_request_status(r.status, r.text))
        ELSE IF ~json_in_content_type(r.ctype)
        THEN Fail(Exc("ContentTypeError", 0, "", ""))
        ELSE /\ access_token' = st.tok
             /\ token_expiry' = st.exp
             /\ refesh_token' = st.rtok
             /\ IF ~st.ok
                THEN Finish(t, o, sent[t], Raise(Exc("KeyError", 0, "", "")))
                ELSE IF o = "_refresh_auth"
                THEN Finish(t, o, sent[t], Return(PyNone))
                ELSE SendResource(t, access_token)

\* _refresh_auth from the answer to the refresh-grant request on, and the
\* _request that called it
refresh_continue(t, r) ==
    LET o == op[t]
        st == store_tokens(r.json)
        Fail(e) == /\ Finish(t, o, sent[t], Raise(e))
                   /\ UNCHANGED <<access_token, token_expiry, refesh_token>>
    IN  IF raise_for_status(r.status)
        THEN Fail(check_request_status(r.status, r.text))
        ELSE IF ~json_in_content_type(r.ctype)
        THEN Fail(Exc("ContentTypeError", 0, "", ""))
        ELSE /\ access_token' = st.tok
             /\ token_expiry' = st.exp
             /\ refesh_token' = st.rtok
             /\ IF ~st.ok
                THEN Finish(t, o, sent[t], Raise(Exc("KeyError", 0, "", "")))
                ELSE IF o = "_refresh_auth"
                THEN Finish(t, o, sent[t], Return(PyNone))
                ELSE SendResource(t, st.tok)

RefreshResponse(t) ==
    /\ pc[t] = "await_refresh"
    /\ \E outcome \in Outcomes :
          \/ NoAnswer(t, "refresh", outcome)
          \/ /\ outcome = "response"
             /\ awaited' = [awaited EXCEPT ![t] = Awaited("refresh", outcome)]
             /\ \E r \in TokenResponses("refresh") :
                   /\ request' = [request EXCEPT ![t] = Local(r)]
                   /\ refresh_continue(t, r)
             /\ UNCHANGED <<session, supplied, close_session, home_id, me, now,
                            op, uri>>

\* get_me: the cached record, or the request for it
GetMe(t) ==
    /\ Begin(t, "get_me")
    /\ IF me_is_none(me)
       THEN BeginRequest(t, "get_me", Uri(NoHomeScope, "me"), access_token,
                         token_expiry, refesh_token, <<>>)
       ELSE /\ uri' = [uri EXCEPT ![t] = NoUri]
            /\ Finish(t, "get_me", <<>>, Return(me))
    /\ UNCHANGED <<session, supplied, close_session, access_token, token_expiry,
                   refesh_token, home_id, me, now>>

\* get_devices, get_mobile_devices, get_zones, get_zone_states
accessor(t, o, path) ==
    /\ Begin(t, o)
    /\ BeginRequest(t, o, Uri(home_id, path), access_token, token_expiry,
                    refesh_token, <<>>)
    /\ UNCHANGED <<session, supplied, close_session, access_token, token_expiry,
                   refesh_token, home_id, me, now>>

GetDevices(t) == accessor(t, "get_devices", "devices")
GetMobileDevices(t) == accessor(t, "get_mobile_devices", "mobileDevices")
GetZones(t) == accessor(t, "get_zones", "zones")
GetZoneStates(t) == accessor(t, "get_zone_states", "zoneStates")

\* _request from the answer to the resource request on, and its caller
request_continue(t, r) ==
    LET o == op[t]
        Fail(e) == /\ Finish(t, o, sent[t], Raise(e))
                   /\ UNCHANGED <<me, home_id>>
    IN  IF raise_for_status(r.status)
        THEN Fail(check_request_status(r.status, r.text))
        ELSE IF uri[t].path = "me"
        THEN IF r.text \notin MeTexts
             THEN Fail(Exc("JSONDecodeError", 0, "", ""))
             ELSE /\ me' = PyGetMe(r.text)
                  /\ IF IsLogin(o)
                     THEN SetHomeId(t, o, me', sent[t])
                     ELSE /\ home_id' = home_id
                          /\ Finish(t, o, sent[t], Return(me'))
        ELSE IF r.text \notin DataTexts
        THEN Fail(Exc("JSONDecodeError", 0, "", ""))
        ELSE /\ Finish(t, o, sent[t], Return(PyList(r.text)))
             /\ UNCHANGED <<me, home_id>>

RequestResponse(t) ==
    /\ pc[t] = "await_request"
    /\ \E outcome \in Outcomes :
          \/ NoAnswer(t, "request", outcome)
          \/ /\ outcome = "response"
             /\ awaited' = [awaited EXCEPT ![t] = Awaited("request", outcome)]
             /\ \E r \in ResourceResponses(uri[t].path) :
                   /\ request' = [request EXCEPT ![t] = Local(r)]
                   /\ request_continue(t, r)
             /\ UNCHANGED <<session, supplied, close_session, access_token,
                            token_expiry, refesh_token, now, op, uri>>

\* close: `if self.session and self._close_session: await self.session.close()`
close_begin(t, o) ==
    /\ Begin(t, o)
    /\ uri' = [uri EXCEPT ![t] = NoUri]
    /\ IF session = "none"
       THEN /\ session' = session
            /\ Finish(t, o, <<>>, Return(PyNone))
       ELSE IF close_session = Unset
       THEN /\ session' = session
            /\ Finish(t, o, <<>>, Raise(Exc("AttributeError", 0, "", "")))
       ELSE /\ session' = "closed"
            /\ Finish(t, o, <<>>, Return(PyNone))
    /\ UNCHANGED <<supplied, close_session, access_token, token_expiry,
                   refesh_token, home_id, me, now>>

Close(t) == close_begin(t, "close")

Aexit(t) ==
    /\ scope = "inside"
    /\ close_begin(t, "__aexit__")

Step(t) ==
    \/ Login(t)
    \/ Aenter(t)
    \/ LoginResponse(t)
    \/ RefreshAuth(t)
    \/ RefreshResponse(t)
    \/ GetMe(t)
    \/ GetDevices(t)
    \/ GetMobileDevices(t)
    \/ GetZones(t)
    \/ GetZoneStates(t)
    \/ RequestResponse(t)
    \/ Close(t)
    \/ Aexit(t)

Next ==
    \/ \E t \in MainTasks : Step(t)
    \/ SupplySession
    \/ Tick

Spec == Init /\ [][Next]_vars

\* the object after `await t._login()` at time 0, answered with the token
\* pair A1/R1 of a lifetime above the margin and with a user of home 42
InitConc ==
    /\ session = "open"
    /\ supplied = FALSE
    /\ close_session = "True"
    /\ access_token = "A1"
    /\ token_expiry \in {e \in ExpiresIn : e > RefreshMargin}
    /\ refesh_token = "R1"
    /\ home_id = 42
    /\ me = PyGetMe("me[42]")
    /\ now = 0
    /\ scope = "none"
    /\ pc = [t \in Tasks |-> "idle"]
    /\ op = [t \in Tasks |-> IF t \in MainTasks THEN "_login" ELSE ""]
    /\ uri = [t \in Tasks |->
                IF t \in MainTasks THEN Uri(NoHomeScope, "me") ELSE NoUri]
    /\ request = [t \in Tasks |->
                    IF t \in MainTasks
                    THEN Local(Response("request", 200,
                                        "application/json;charset=utf-8",
                                        "me[42]", NoJson))
                    ELSE NoResponse]
    /\ awaited = [t \in Tasks |->
                    IF t \in MainTasks THEN Awaited("request", "response")
                    ELSE NoAwait]
    /\ sent = [t \in Tasks |->
                 IF t \in MainTasks
                 THEN <<PasswordReq, ResourceReq(Uri(NoHomeScope, "me"), "A1")>>
                 ELSE <<>>]
    /\ res = [t \in Tasks |-> IF t \in MainTasks THEN Return(PyNone) ELSE NoCall]

\* the coroutines of one event loop share the object: each calls a data
\* accessor, and their stretches between awaits interleave
StepConc(t) ==
    \/ GetZones(t)
    \/ RefreshResponse(t)
    \/ RequestResponse(t)

NextConc ==
    \/ \E t \in Tasks : StepConc(t)
    \/ Tick

SpecConc == InitConc /\ [][NextConc]_vars

-----------------------------------------------------------------------------
(* The claims. *)

\* coroutine t has completed a call
Done(t) == pc[t] = "idle" /\ res[t].kind \in {"return", "raise"}

MappedStatuses == {400, 401, 403, 500}
MappedError(status) ==
    CASE status = 400 -> "TadoBadRequestError"
      [] status = 401 -> "TadoAuthenticationError"
      [] status = 403 -> "TadoForbiddenError"
      [] status = 500 -> "TadoException"
ServiceError(status, text) == Exc("TadoException", status, text, "")

\* C1: a resource request (_request) answered with status 400, 401, 403 or
\* 500 makes the call raise the error mapped to the status, the error carries
\* the text of the response body, and nothing is returned to the caller.
C1_MappedErrors ==
    \A t \in Tasks :
        (Done(t) /\ request[t].site = "request"
                 /\ request[t].status \in MappedStatuses)
        => /\ res[t].kind = "raise"
           /\ res[t].value = PyNone
           /\ res[t].err.type = MappedError(request[t].status)
           /\ res[t].err.body = request[t].text

\* C1: a data accessor whose resource request was answered 403 with body
\* "err2" has raised TadoForbiddenError carrying "err2".
C1_Witness ==
    \E t \in Tasks :
        /\ Done(t)
        /\ op[t] = "get_zones"
        /\ request[t] = Local(Response("request", 403, "application/json;charset=utf-8",
                                       "err2", NoJson))
        /\ res[t] = Raise(Exc("TadoForbiddenError", 0, "err2", ""))

C3_TimeoutIsConnectionError ==
    \A t \in Tasks :
        (Done(t) /\ awaited[t].outcome = "timeout")
        => /\ awaited[t].site \in {"login", "refresh", "request"}
           /\ res[t] = Raise(Exc("TadoConnectionError", 0, "", ""))

\* C3: the who-am-I request of a login, sent after a refresh-grant request,
\* has timed out and the login raised TadoConnectionError.
C3_Witness ==
    \E t \in Tasks :
        /\ Done(t)
        /\ IsLogin(op[t])
        /\ awaited[t] = Awaited("request", "timeout")
        /\ Len(sent[t]) = 3
        /\ sent[t][2].site = "refresh"
        /\ res[t].err.type = "TadoConnectionError"

\* the step is the begin of a call of operation o by coroutine t
CallStep(t, o) ==
    /\ pc[t] = "idle"
    /\ op'[t] = o
    /\ <<op[t], pc[t], res[t], sent[t], request[t], awaited[t], uri[t]>>
         # <<op'[t], pc'[t], res'[t], sent'[t], request'[t], awaited'[t], uri'[t]>>

\* a login has succeeded and the transport handle is open
LoggedIn == home_id # NoneInt /\ session = "open"

Accessors == {"get_devices", "get_mobile_devices", "get_zones", "get_zone_states"}

\* C4: after a successful login, _refresh_auth called at time t sends
\* nothing and changes nothing when t < expiry - 30; otherwise (the boundary
\* t = expiry - 30 included) it sends exactly one refresh-grant request with
\* the stored refresh token, and when that succeeds the access token, the
\* refresh token and the expiry are those of one token response, the expiry
\* being the time of the write plus its expires_in.  The same holds of the
\* _refresh_auth at the head of an accessor's _request.
C4_RefreshPolicy ==
    [][\A t \in Tasks :
          /\ (CallStep(t, "_refresh_auth") /\ LoggedIn)
             => /\ UNCHANGED <<access_token, refesh_token, token_expiry>>
                /\ IF now < token_expiry - 30
                   THEN /\ pc'[t] = "idle"
                        /\ res'[t] = Return(PyNone)
                        /\ sent'[t] = <<>>
                   ELSE /\ pc'[t] = "await_refresh"
                        /\ sent'[t] = <<RefreshReq(refesh_token)>>
          /\ \A o \in Accessors :
                (CallStep(t, o) /\ LoggedIn)
                => IF now < token_expiry - 30
                   THEN /\ Len(sent'[t]) = 1
                        /\ sent'[t][1].site = "request"
                   ELSE sent'[t] = <<RefreshReq(refesh_token)>>
          /\ (pc[t] = "await_refresh" /\ pc'[t] # "await_refresh"
                /\ awaited'[t].outcome = "response"
                /\ (res'[t].kind = "return" \/ pc'[t] = "await_request"))
             => /\ Len(SelectSeq(sent'[t], LAMBDA q : q.site = "refresh")) = 1
                /\ \E p \in TokenPairs, e \in ExpiresIn :
                      /\ access_token' = p[1]
                      /\ refesh_token' = p[2]
                      /\ token_expiry' = now' + e
      ]_vars

\* C4: after a successful login a direct _refresh_auth has sent one
\* refresh-grant request and returned, the expiry being now + 32.
C4_Witness ==
    \E t \in Tasks :
        /\ Done(t)
        /\ home_id # NoneInt
        /\ op[t] = "_refresh_auth"
        /\ res[t] = Return(PyNone)
        /\ Len(sent[t]) = 1
        /\ sent[t][1].site = "refresh"
        /\ token_expiry = now + 32

\* C5: once _me is set it never changes; a get_me that begins with _me set
\* returns that record at once and sends no request, whatever the token
\* state; and the get_me that fetched the record sent exactly one me request.
C5_GetMeMemoized ==
    [][/\ me # PyNone => me' = me
       /\ \A t \in Tasks :
             /\ (CallStep(t, "get_me") /\ me # PyNone)
                => /\ pc'[t] = "idle"
                   /\ res'[t] = Return(me)
                   /\ sent'[t] = <<>>
             /\ (pc[t] # "idle" /\ op[t] = "get_me" /\ res'[t].kind = "return")
                => /\ res'[t].value = me'
                   /\ me = PyNone
                   /\ Len(SelectSeq(sent'[t], LAMBDA q : q.path = "me")) = 1
      ]_vars

\* C5: a get_me has returned the cached record without sending a request,
\* after the tokens were renewed and with the token due for refresh again.
C5_Witness ==
    \E t \in Tasks :
        /\ Done(t)
        /\ op[t] = "get_me"
        /\ me # PyNone
        /\ res[t] = Return(me)
        /\ sent[t] = <<>>
        /\ ~(now < token_expiry - 30)
        /\ access_token = "A2"

\* C6 as stated: a transport handle the caller supplied stays open through
\* every sequence of operations, and close and the scope exit complete
\* without an error.
C6_SuppliedHandleStaysOpen ==
    supplied
    => /\ session = "open"
       /\ \A t \in Tasks :
             (Done(t) /\ op[t] \in {"close", "__aexit__"}) => res[t].kind = "return"

\* C7 as stated: once the scope is left, on whatever path, a transport
\* handle the session created itself is closed.
C7_OwnHandleClosedOnExit ==
    (scope = "left" /\ ~supplied /\ session # "none") => session = "closed"

\* C8 as stated: after a successful login the home identifier is the id of
\* the first home of the user record, every home-scoped request targets
\* homes/{home_id}/..., and no home-scoped request is ever sent with an unset
\* home identifier.
C8_HomeScopedRequests ==
    \A t \in Tasks :
        /\ (Done(t) /\ IsLogin(op[t]) /\ res[t].kind = "return")
           => (homes(me) # <<>> /\ home_id = homes(me)[1])
        /\ \A i \in DOMAIN sent[t] :
              sent[t][i].path \in HomeScoped
              => (sent[t][i].home # NoneInt /\ sent[t][i].home = home_id)

TadoErrors ==
    {"TadoException", "TadoConnectionError", "TadoAuthenticationError",
     "TadoBadRequestError", "TadoForbiddenError"}

\* C10 as stated: _refresh_auth run while the expiry is unset, directly or
\* through an accessor, fails with a defined error of the client and sends
\* no request, rather than failing on the arithmetic with the absent expiry.
C10_NotAuthenticatedError ==
    \A t \in Tasks :
        (Done(t) /\ op[t] \in Accessors \cup {"_refresh_auth", "get_me"}
                 /\ token_expiry = NoneInt)
        => /\ sent[t] = <<>>
           /\ res[t].kind = "raise"
           /\ res[t].err.type \in TadoErrors

\* C11 as stated: in every state the access token and the expiry are both
\* unset or both set, and an expiry that is set is the time of a token
\* response plus the expires_in of that response.
C11_TokenAndExpiryTogether ==
    \/ access_token = NoneStr /\ token_expiry = NoneInt
    \/ /\ access_token # NoneStr
       /\ token_expiry # NoneInt
       /\ \E t0 \in 0..now, e \in ExpiresIn : token_expiry = t0 + e

\* C12 as stated: a request that cannot reach the server ends the call with
\* TadoConnectionError at each of the three sites, and a call that awaited a
\* request and failed raises an error of the client's taxonomy (a malformed
\* 2xx token response among them, as TadoException).
C12_FailuresInTaxonomy ==
    \A t \in Tasks :
        /\ (Done(t) /\ awaited[t].outcome = "unreachable")
           => res[t] = Raise(Exc("TadoConnectionError", 0, "", ""))
        /\ (Done(t) /\ awaited[t].outcome # "" /\ res[t].kind = "raise")
           => res[t].err.type \in TadoErrors

\* C13 as stated: a login that fetched a user record with no homes has
\* raised an error of the client's taxonomy (TadoException, or the error of
\* the fetch), and the home identifier is unset whenever the cached user
\* record has no homes.
C13_EmptyHomeList ==
    /\ (me # PyNone /\ homes(me) = <<>>) => home_id = NoneInt
    /\ \A t \in Tasks :
          (Done(t) /\ IsLogin(op[t]) /\ request[t].site = "request"
                   /\ request[t].status < 400 /\ me # PyNone /\ homes(me) = <<>>)
          => /\ res[t].kind = "raise"
             /\ res[t].err.type \in TadoErrors

\* the requests of one site among the requests log
SentTo(log, site) == {i \in 1..Len(log) : log[i].site = site}

\* C14: one call sends at most one password-grant request, at most one
\* refresh-grant request and at most one resource request, and a call that
\* ended on a timeout or on an error status sent nothing after the request
\* that failed.
C14_NoRetry ==
    \A t \in Tasks :
        /\ \A site \in {"login", "refresh", "request"} :
              Cardinality(SentTo(sent[t], site)) <= 1
        /\ (Done(t) /\ (\/ awaited[t].outcome = "timeout"
                        \/ /\ awaited[t].outcome = "response"
                           /\ raise_for_status(request[t].status)))
           => /\ sent[t] # <<>>
              /\ sent[t][Len(sent[t])].site = awaited[t].site
              /\ res[t].kind = "raise"

\* C14: a data accessor whose refresh-grant request timed out has ended
\* having sent that one request and no resource request.
C14_Witness ==
    \E t \in Tasks :
        /\ Done(t)
        /\ op[t] = "get_devices"
        /\ awaited[t] = Awaited("refresh", "timeout")
        /\ sent[t] = <<RefreshReq("R1")>>

\* the step is coroutine t taking the answer to a request that failed: no
\* answer came, or the answer has an error status, or (login) it is not JSON
StepFails(t) ==
    /\ pc[t] # "idle"
    /\ awaited'[t] # awaited[t] \/ request'[t] # request[t] \/ pc'[t] # pc[t]
    /\ \/ awaited'[t].outcome \in {"timeout", "unreachable"}
       \/ /\ awaited'[t].outcome = "response"
          /\ \/ request'[t].status >= 400
             \/ /\ request'[t].site = "login"
                /\ request'[t].ctype \notin JsonCTypes

\* C15: a step of a call that fails ends the call with an error and no
\* value, and nothing more is sent: after a failed refresh no resource
\* request goes out, and a login whose token request, content-type check or
\* user fetch failed leaves the home identifier as it was.
C15_FailureAborts ==
    [][\A t \in Tasks :
          StepFails(t)
          => /\ pc'[t] = "idle"
             /\ res'[t].kind = "raise"
             /\ res'[t].value = PyNone
             /\ sent'[t] = sent[t]
             /\ (pc[t] = "await_refresh") => SentTo(sent'[t], "request") = {}
             /\ IsLogin(op[t]) => home_id' = home_id]_vars

\* C15: a login whose user fetch was answered 500 has failed with the tokens
\* stored and no home identifier set.
C15_Witness ==
    \E t \in Tasks :
        /\ Done(t)
        /\ IsLogin(op[t])
        /\ request[t].site = "request"
        /\ request[t].status = 500
        /\ res[t].kind = "raise"
        /\ access_token # NoneStr
        /\ home_id = NoneInt

\* C17: once the home identifier is set, no step changes it; a repeated
\* login stores the tokens of its own response and leaves the identifier.
C17_HomeIdSetOnce ==
    [][home_id # NoneInt => home_id' = home_id]_vars

\* C17: a repeated login has returned, having stored the second token pair,
\* with the user record cached and the home identifier in place.
C17_Witness ==
    \E t \in Tasks :
        /\ Done(t)
        /\ IsLogin(op[t])
        /\ res[t] = Return(PyNone)
        /\ sent[t] = <<PasswordReq>>
        /\ access_token = "A2"
        /\ refesh_token = "R2"
        /\ home_id = 42

\* C18: the step that sends a resource request comes after the freshness
\* check: either the stored token is not due for a refresh, or the step is
\* the one that took the answer to the refresh-grant request of the same
\* call; the bearer token of the request is the access token stored at that
\* moment, which after a refresh is the token of the refresh response.
C18_FreshThenBearer ==
    [][\A t \in Tasks :
          (pc[t] # "await_request" /\ pc'[t] = "await_request")
          => LET q == sent'[t][Len(sent'[t])]
             IN  /\ q.site = "request"
                 /\ q.bearer = access_token'
                 /\ \/ /\ pc[t] = "await_refresh"
                       /\ awaited'[t] = Awaited("refresh", "response")
                       /\ request'[t].status < 400
                       /\ sent'[t] = Append(sent[t], q)
                       /\ sent[t][Len(sent[t])].site = "refresh"
                    \/ /\ pc[t] \in {"idle", "await_login"}
                       /\ token_expiry' # NoneInt
                       /\ now < token_expiry' - RefreshMargin]_vars

\* C18: a data accessor refreshed the token pair A1/R1 into A2/R2 and its
\* resource request, now awaited, carries A2.
C18_Witness ==
    \E t \in Tasks :
        /\ pc[t] = "await_request"
        /\ op[t] \in Accessors
        /\ access_token = "A2"
        /\ sent[t] = <<RefreshReq("R1"), ResourceReq(uri[t], "A2")>>

\* C19: the step that takes a timeout or an error status as the answer to a
\* password-grant or refresh-grant request changes none of the access token,
\* the refresh token, the expiry, the home identifier and the cached user
\* record; so a failed refresh keeps the previous three and a failed first
\* login leaves them unset.
C19_FailedTokenRequestFrame ==
    [][\A t \in Tasks :
          (/\ pc[t] \in {"await_login", "await_refresh"}
           /\ pc'[t] = "idle"
           /\ \/ awaited'[t].outcome = "timeout"
              \/ /\ awaited'[t].outcome = "response"
                 /\ request'[t].status >= 400)
          => /\ res'[t].kind = "raise"
             /\ UNCHANGED <<access_token, refesh_token, token_expiry, home_id,
                            me>>]_vars

\* C19: a data accessor whose refresh-grant request timed out has ended
\* with the token pair A1/R1 and its expiry still stored.
C19_Witness ==
    \E t \in Tasks :
        /\ Done(t)
        /\ op[t] \in Accessors
        /\ awaited[t] = Awaited("refresh", "timeout")
        /\ access_token = "A1"
        /\ refesh_token = "R1"
        /\ token_expiry # NoneInt
        /\ home_id # NoneInt

\* C20: the step of a login that takes a token response and stores its three
\* values goes on by the expiry just stored: with the user record cached it
\* ends, having sent the password grant only; otherwise with expires_in
\* above 30 it sends the request for the user record as its second request,
\* and with expires_in of 30 or less it sends a refresh-grant request, after
\* whose answer the request for the user record is the third.
C20_LoginFetchThroughRefresh ==
    [][\A t \in Tasks :
          LET MeReq == ResourceReq(Uri(NoHomeScope, "me"), access_token')
          IN  /\ (/\ pc[t] = "await_login"
                  /\ awaited'[t] = Awaited("login", "response")
                  /\ request'[t].status < 400
                  /\ request'[t].ctype \in JsonCTypes
                  /\ ~(res'[t].kind = "raise" /\ res'[t].err.type = "KeyError"))
                 => IF me # PyNone
                    THEN pc'[t] = "idle" /\ sent'[t] = <<PasswordReq>>
                    ELSE IF token_expiry' - now > RefreshMargin
                    THEN /\ pc'[t] = "await_request"
                         /\ sent'[t] = <<PasswordReq, MeReq>>
                    ELSE /\ pc'[t] = "await_refresh"
                         /\ sent'[t] = <<PasswordReq, RefreshReq(refesh_token')>>
              /\ (/\ IsLogin(op[t])
                  /\ pc[t] = "await_refresh"
                  /\ pc'[t] = "await_request")
                 => /\ Len(sent[t]) = 2
                    /\ sent'[t] = Append(sent[t], MeReq)]_vars

\* C20: a first login has returned having sent three requests, the second
\* of them the refresh-grant request.
C20_Witness ==
    \E t \in Tasks :
        /\ Done(t)
        /\ IsLogin(op[t])
        /\ res[t] = Return(PyNone)
        /\ Len(sent[t]) = 3
        /\ sent[t][1] = PasswordReq
        /\ SentTo(sent[t], "refresh") # {}
        /\ home_id # NoneInt

\* C16: nothing orders the coroutines' uses of the token fields. A data
\* accessor that begins while the stored token is due for a refresh sends a
\* refresh-grant request with the stored refresh token, whether or not
\* another coroutine awaits the answer to one; and each step that takes a
\* token response writes the three fields from that response, so that they
\* hold the values of the response taken last.
C16_UnsynchronizedRefresh ==
    [][\A t \in Tasks :
          /\ (/\ CallStep(t, "get_zones")
              /\ session = "open"
              /\ token_expiry # NoneInt
              /\ ~(now < token_expiry - RefreshMargin))
             => /\ pc'[t] = "await_refresh"
                /\ sent'[t] = <<RefreshReq(refesh_token)>>
          /\ (pc[t] = "await_refresh" /\ pc'[t] = "await_request")
             => /\ <<access_token', refesh_token'>> \in TokenPairs
                /\ token_expiry' - now \in ExpiresIn
                /\ sent'[t][Len(sent'[t])].bearer = access_token']_vars

\* C16: two coroutines each sent a refresh-grant request with refresh token
\* R1; one stored A2 and the other, answered later, A1: the fields hold the
\* pair A1/R1, and the resource requests in flight carry A2 and A1.
C16_Witness ==
    \E t, u \in Tasks :
        /\ t # u
        /\ pc[t] = "await_request" /\ pc[u] = "await_request"
        /\ Len(sent[t]) = 2 /\ Len(sent[u]) = 2
        /\ sent[t][1] = RefreshReq("R1") /\ sent[u][1] = RefreshReq("R1")
        /\ sent[t][2].bearer = "A2" /\ sent[u][2].bearer = "A1"
        /\ access_token = "A1"
        /\ refesh_token = "R1"

====
